---- MODULE Spec2Model ----
(***************************************************************************)
(* gridSatGlobal_Altimeter.py: one satellite mission is read tile by tile  *)
(* into pre-allocated accumulation arrays, quality controlled, collocated  *)
(* hour by hour onto the water points of a grid and written to a file.     *)
(*                                                                         *)
(* Number representation.  Physical values are integers in hundredths of   *)
(* their unit (0.01 m -> 1, 20 m -> 2000, 1.5 -> 150), latitudes and       *)
(* longitudes in hundredths of a degree, distances in metres.  The raw     *)
(* time (fractional days since 1985) is an integer number of ticks of      *)
(* 1/DayTicks day.  The parallel arrays ast, aslat, ... are one sequence   *)
(* of records whose fields carry the arrays' names.  The weighted standard *)
(* deviation (stdhsk) is written next to counthsk by the same slice        *)
(* assignments and is not carried; the Ku and Ka families of a file fill   *)
(* the same arrays and are not told apart.                                 *)
(***************************************************************************)
EXTENDS Integers, Sequences, FiniteSets, TLC

\* ---------------------------------------------------------------- bounds
\* Stand-in for the capacity 10**pia of the accumulation arrays.
Capacity == 22
\* Number of tiles of the (auxlat, auxlon) traversal.
MaxTiles == 2
\* Run arguments range over -ArgBelow .. ArgAbove.
ArgBelow == 15
ArgAbove == 14
\* Observation times of the axis specification: Base + 0..MaxK ten-minute ticks.
MaxK == 10

\* ------------------------------------------------------------- constants
DayTicks == 144
dlim == 25000
maxti == 1800
max_swh_rms == 150
max_sig0_rms == 80
max_swh_qc == 200
hsmax == 2000
wspmax == 6000
\* 0.01, the lower plausibility bound of wave height and wind
vmin == 1
NegInf == -1000000
NaN == -2000000000
\* timegm('1985010100'): seconds from 1970-01-01 to 1985-01-01
Epoch1985 == 473385600
\* metres per hundredth of a degree on the local chart
MetresPerUnit == 1112
\* neighbours considered per target point by the resampling backend
Neighbours == 8

sdname == <<"JASON3","JASON2","CRYOSAT2","JASON1","HY2","SARAL","SENTINEL3A",
            "ENVISAT","ERS1","ERS2","GEOSAT","GFO","TOPEX","SENTINEL3B">>
sname == <<"JASON-3","JASON-2","CRYOSAT-2","JASON-1","HY-2","SARAL","SENTINEL-3A",
           "ENVISAT","ERS-1","ERS-2","GEOSAT","GFO","TOPEX","SENTINEL-3B">>
min_swh_numval == <<17,17,17,17,17,17,17,17,17,17,NegInf,3,7,17>>

\* datemin='2000010100', datemax='2021123123' as days since 1985, in ticks
adatemin == 5478 * DayTicks
adatemax == 13514 * DayTicks - (DayTicks \div 24)

\* ----------------------------------------------------- sequence indexing
\* Python indexing seq[i]: negative indices count from the end.
InPyRange(seq, i) == i >= -Len(seq) /\ i < Len(seq)
PyIndex(seq, i) == IF i >= 0 THEN seq[i + 1] ELSE seq[Len(seq) + i + 1]

\* ------------------------------------------------------ float comparisons
\* Comparisons of values that may be NaN: every comparison with NaN is false.
FLt(x, y) == x # NaN /\ y # NaN /\ x < y
FGt(x, y) == x # NaN /\ y # NaN /\ x > y
FGe(x, y) == x # NaN /\ y # NaN /\ x >= y

Abs(x) == IF x < 0 THEN -x ELSE x

\* ------------------------------------------------------------ input data
Base == 5479 * DayTicks
Tick10 == DayTicks \div 144
Hour == 6 * Tick10

ZeroRec == [ast |-> 0, aslat |-> 0, aslon |-> 0, ahsk |-> 0, ahskcal |-> 0,
            ahsc |-> 0, awnd |-> 0, awndcal |-> 0, asig0knstd |-> 0,
            aswhknobs |-> 0, aswhknstd |-> 0, aswhkqc |-> 0]

GoodRec(lat, tick) ==
    [ast |-> tick, aslat |-> lat, aslon |-> 35000, ahsk |-> 250, ahskcal |-> 260,
     ahsc |-> 240, awnd |-> 800, awndcal |-> 810, asig0knstd |-> max_sig0_rms,
     aswhknobs |-> 17, aswhknstd |-> max_swh_rms, aswhkqc |-> max_swh_qc]

\* One observation of a tile file: a record at latitude lat and time tick.
Rec(lat, tick, variant) ==
    CASE variant = "good"   -> GoodRec(lat, tick)
      [] variant = "noC"    -> [GoodRec(lat, tick) EXCEPT !.ahsc = 0]
      [] variant = "nocal"  -> [GoodRec(lat, tick) EXCEPT !.ahskcal = 0, !.awndcal = 7000]
      [] variant = "badqc"  -> [GoodRec(lat, tick) EXCEPT !.aswhkqc = max_swh_qc + 1]
      [] variant = "lowobs" -> [GoodRec(lat, tick) EXCEPT !.aswhknobs = 7]
      [] variant = "rough"  -> [GoodRec(lat, tick) EXCEPT !.aswhknstd = max_swh_rms + 1]
      [] variant = "noisy"  -> [GoodRec(lat, tick) EXCEPT !.asig0knstd = max_sig0_rms + 1]
      [] variant = "calm"   -> [GoodRec(lat, tick) EXCEPT !.awnd = vmin]
      [] variant = "zero"   -> ZeroRec

\* A tile's content: segments <<count, latitude, time, variant>> in file order.
RECURSIVE Expand(_)
Expand(segs) ==
    IF segs = << >> THEN << >>
    ELSE LET g == Head(segs)
         IN [i \in 1..g[1] |-> Rec(g[2], g[3], g[4])] \o Expand(Tail(segs))

\* Track positions (latitude, hundredths of a degree) of the input files.
LatA == 0 - 30
LatB == 0 + 5
LatC == 0 - 6

TileSegs(id) ==
    CASE id = "oneHour"   -> << <<11, LatB, Base, "good">> >>
      [] id = "fill"      -> << <<1, LatA, Base, "noC">>, <<5, LatB, Base, "good">>,
                                <<5, LatC, Base + Hour, "good">> >>
      [] id = "threeHour" -> << <<4, LatC, Base, "good">>, <<4, LatC, Base + Hour, "good">>,
                                <<3, LatC, Base + 2 * Hour, "good">> >>
      [] id = "reject"    -> << <<1, LatB, Base, "badqc">>, <<1, LatB, adatemin - Tick10, "good">>,
                                <<1, 0, 0, "zero">>, <<1, LatB, Base, "rough">>,
                                <<1, LatB, Base, "noisy">>, <<1, LatB, Base, "calm">>,
                                <<5, LatB, Base, "good">> >>
      [] id = "lowobs"    -> << <<12, LatB, Base + 4 * Tick10, "lowobs">> >>
      [] id = "sparse"    -> << <<7, LatB, Base + 2 * Tick10, "good">>,
                                <<2, 50, Base + 2 * Tick10, "nocal">>,
                                <<2, LatB, Base + 2 * Hour, "good">> >>
      [] id = "short"     -> << <<10, LatB, Base, "good">> >>

TileIds == {"oneHour", "fill", "threeHour", "reject", "lowobs", "sparse", "short"}

\* Array lengths of a tile file.  shape names the arrays shorter than TIME:
\* "ok" none, "wnd" WSPD, "lon" LONGITUDE, "hskcal" SWH_KU_CAL,
\* "latlon" LATITUDE and LONGITUDE both (equal to each other).
Shapes == {"ok", "wnd", "lon", "hskcal", "latlon"}
TileData(tile) == Expand(TileSegs(tile.id))
TileSize(tile) == Len(TileData(tile))
LenOf(tile, field) ==
    LET n == TileSize(tile)
    IN CASE field = "awnd"    -> IF tile.shape = "wnd" THEN n - 1 ELSE n
         [] field = "aslat"   -> IF tile.shape = "latlon" THEN n - 2 ELSE n
         [] field = "aslon"   -> IF tile.shape \in {"lon", "latlon"} THEN n - 2 ELSE n
         [] field = "ahskcal" -> IF tile.shape = "hskcal" THEN n - 1 ELSE n
         [] OTHER             -> n

\* A file of the input directory, or none for that tile.
Absent == [id |-> "absent", shape |-> "ok"]
AllFiles == {[id |-> d, shape |-> "ok"] : d \in TileIds}
             \cup {[id |-> "oneHour", shape |-> sh] : sh \in Shapes}
             \cup {Absent}
FewFiles == {[id |-> "oneHour", shape |-> "ok"], [id |-> "lowobs", shape |-> "ok"],
             [id |-> "reject", shape |-> "ok"], Absent}

\* ------------------------------------------------------------------ grid
\* gridInfo.nc: points <<latitude, longitude (0..360), mask>> in np.where order.
GridInfo(g) ==
    CASE g = "small" -> << <<1, 35000, 1>>, <<50, 35000, 1>> >>
      [] g = "dense" -> << <<0 - 22, 35000, 1>>, <<0, 35000, 0>> >>
                         \o [i \in 1..10 |-> <<i, 35000, 1>>]
                         \o << <<60, 35000, 1>> >>
Grids == {"small", "dense"}

\* shiftgrid(180., mask, lonm, start=False): longitudes to -180..180
ShiftLon(lon) == IF lon > 18000 THEN lon - 36000 ELSE lon

IsWater(p) == p[3] > 0
\* flatm, flonm: the water points, as <<lat, lon>>
Targets(g) ==
    LET w == SelectSeq(GridInfo(g), IsWater)
    IN [i \in 1..Len(w) |-> <<w[i][1], ShiftLon(w[i][2])>>]

VARIABLES s, grid, disk, phase, ntile, ii, abuf, atime, t, fbuf, ncfile
vars == <<s, grid, disk, phase, ntile, ii, abuf, atime, t, fbuf, ncfile>>

\* --------------------------------------------------------------- ingest
\* Mutant: the arrays are not zeroed and hold plausible stale records.
AllocatedStale(n) == [i \in 1..n |-> GoodRec(LatB, Base)]
\* np.zeros((10**pia)) for each accumulation array
Allocated(n) == [i \in 1..n |-> ZeroRec]

AllArgs == (0 - ArgBelow) .. ArgAbove
MainArgs == {0, 10}

Init ==
    /\ \/ s \in AllArgs /\ disk \in [1..MaxTiles -> FewFiles] /\ grid = "small"
       \/ s \in MainArgs /\ disk \in [1..MaxTiles -> AllFiles] /\ grid \in Grids
    /\ phase = "ingest"
    /\ ntile = 0
    /\ ii = 0
    /\ abuf = Allocated(Capacity)
    /\ atime = << >>
    /\ t = 0
    /\ fbuf = << >>
    /\ ncfile = "none"

\* The tile the (j, k) loop is at.
Tile == disk[ntile + 1]
InLoop == phase = "ingest" /\ ntile < MaxTiles

\* Mutant: only the current offset is compared with the capacity.
FitsOffsetOnly(off, n) == off <= Capacity
\* ast.shape[0] bounds the offset after the append
Fits(off, n) == off + n <= Capacity
ShapeOk(tile) ==
    /\ LenOf(tile, "ast") = LenOf(tile, "awnd")
    /\ LenOf(tile, "aslat") = LenOf(tile, "aslon")
    /\ LenOf(tile, "ahsk") = LenOf(tile, "ahskcal")

\* Assignment order of the accumulation arrays.
FieldOrder == <<"ast", "aslat", "aslon", "ahsk", "ahskcal", "ahsc", "awnd", "awndcal",
                "asig0knstd", "aswhknobs", "aswhknstd", "aswhkqc">>
\* a[ii:ii+n] = v needs v of length n (or 1, which is broadcast)
Assignable(tile, field) == LenOf(tile, field) \in {TileSize(tile), 1}
\* Number of arrays assigned before the first assignment that raises.
Assigned(tile) ==
    LET bad == {k \in 1..Len(FieldOrder) : ~Assignable(tile, FieldOrder[k])}
    IN IF bad = {} THEN Len(FieldOrder)
       ELSE (CHOOSE k \in bad : \A l \in bad : k <= l) - 1
\* The accumulation arrays after the first nf slice assignments of a tile.
Store(buf, off, tile, nf) ==
    LET recs == TileData(tile)
        fs == {FieldOrder[k] : k \in 1..nf}
    IN [i \in 1..Len(buf) |->
          IF i > off /\ i <= off + Len(recs)
          THEN [f \in DOMAIN buf[i] |-> IF f \in fs THEN recs[i - off][f] ELSE buf[i][f]]
          ELSE buf[i]]

\* sdname[s] raises IndexError in the try and again in its except handler.
TileIndexError ==
    /\ InLoop
    /\ ~InPyRange(sdname, s)
    /\ phase' = "IndexError"
    /\ ntile' = ntile + 1
    /\ UNCHANGED <<s, grid, disk, ii, abuf, atime, t, fbuf, ncfile>>

\* nc.Dataset raises: the file does not exist.
TileAbsent ==
    /\ InLoop
    /\ InPyRange(sdname, s)
    /\ Tile = Absent
    /\ ntile' = ntile + 1
    /\ UNCHANGED <<s, grid, disk, phase, ii, abuf, atime, t, fbuf, ncfile>>

\* size(st) <= 10: nothing is read.
TileShort ==
    /\ InLoop
    /\ InPyRange(sdname, s)
    /\ Tile # Absent
    /\ ~(TileSize(Tile) > 10)
    /\ ntile' = ntile + 1
    /\ UNCHANGED <<s, grid, disk, phase, ii, abuf, atime, t, fbuf, ncfile>>

\* sys.exit('Small array to allocate the satellite data! ...')
TileSmallArray ==
    /\ InLoop
    /\ InPyRange(sdname, s)
    /\ Tile # Absent
    /\ TileSize(Tile) > 10
    /\ ~Fits(ii, TileSize(Tile))
    /\ phase' = "exit_small_array"
    /\ ntile' = ntile + 1
    /\ UNCHANGED <<s, grid, disk, ii, abuf, atime, t, fbuf, ncfile>>

\* The shape test fails: the tile is passed over.
TileMismatch ==
    /\ InLoop
    /\ InPyRange(sdname, s)
    /\ Tile # Absent
    /\ TileSize(Tile) > 10
    /\ Fits(ii, TileSize(Tile))
    /\ ~ShapeOk(Tile)
    /\ ntile' = ntile + 1
    /\ UNCHANGED <<s, grid, disk, phase, ii, abuf, atime, t, fbuf, ncfile>>

\* All slice assignments succeed and the offset advances.
TileAppend ==
    /\ InLoop
    /\ InPyRange(sdname, s)
    /\ Tile # Absent
    /\ TileSize(Tile) > 10
    /\ Fits(ii, TileSize(Tile))
    /\ ShapeOk(Tile)
    /\ Assigned(Tile) = Len(FieldOrder)
    /\ abuf' = Store(abuf, ii, Tile, Len(FieldOrder))
    /\ ii' = ii + TileSize(Tile)
    /\ ntile' = ntile + 1
    /\ UNCHANGED <<s, grid, disk, phase, atime, t, fbuf, ncfile>>

\* A slice assignment raises ValueError (an array the shape test does not
\* compare has another length); the arrays before it are already written.
TileValueError ==
    /\ InLoop
    /\ InPyRange(sdname, s)
    /\ Tile # Absent
    /\ TileSize(Tile) > 10
    /\ Fits(ii, TileSize(Tile))
    /\ ShapeOk(Tile)
    /\ Assigned(Tile) < Len(FieldOrder)
    /\ abuf' = Store(abuf, ii, Tile, Assigned(Tile))
    /\ phase' = "tile_ValueError"
    /\ ntile' = ntile + 1
    /\ UNCHANGED <<s, grid, disk, ii, atime, t, fbuf, ncfile>>

Ingest == TileIndexError \/ TileAbsent \/ TileShort \/ TileSmallArray
            \/ TileMismatch \/ TileAppend \/ TileValueError

\* ------------------------------------------------------ quality control
\* x >= min_swh_numval[s], where the threshold may be -inf
GeNumval(x, m) == m = NegInf \/ x >= m

\* One element of the conjunction under np.where at the QC check.
QCPass(r, arg) ==
    /\ r.aswhknstd <= max_swh_rms
    /\ r.asig0knstd <= max_sig0_rms
    /\ GeNumval(r.aswhknobs, PyIndex(min_swh_numval, arg))
    /\ r.aswhkqc <= max_swh_qc
    /\ r.ahsk > vmin
    /\ r.ahsk < hsmax
    /\ r.awnd > vmin
    /\ r.awnd < wspmax
    /\ r.ast >= adatemin
    /\ r.ast <= adatemax

\* indq[0]: evaluated over the whole arrays
indq(buf, arg) == {i \in 1..Len(buf) : QCPass(buf[i], arg)}

\* Mutant: ten records are enough.
EnoughRecordsTen(n) == n >= 10
\* size(indq) > 10
EnoughRecords(n) == n > 10

\* ast*24.*3600. + timegm('1985010100'): days since 1985 to seconds since 1970
SecPerTick == 86400 \div DayTicks
ToEpochSeconds(tick) == tick * SecPerTick + Epoch1985

\* The i-th smallest element of a set of integers.
RECURSIVE Sorted(_)
Sorted(S) ==
    IF S = {} THEN << >>
    ELSE LET lo == CHOOSE x \in S : \A y \in S : x <= y
         IN <<lo>> \o Sorted(S \ {lo})

\* a[indq[0]] for the eight arrays kept, the time converted
Selected(buf, arg) ==
    LET ix == Sorted(indq(buf, arg))
    IN [k \in 1..Len(ix) |->
          [ast |-> ToEpochSeconds(buf[ix[k]].ast), aslat |-> buf[ix[k]].aslat,
           aslon |-> buf[ix[k]].aslon, ahsk |-> buf[ix[k]].ahsk,
           ahskcal |-> buf[ix[k]].ahskcal, ahsc |-> buf[ix[k]].ahsc,
           awnd |-> buf[ix[k]].awnd, awndcal |-> buf[ix[k]].awndcal]]

LoopDone == phase = "ingest" /\ ntile = MaxTiles

QualityControl ==
    /\ LoopDone
    /\ EnoughRecords(Cardinality(indq(abuf, s)))
    /\ abuf' = Selected(abuf, s)
    /\ ii' = 0
    /\ phase' = "alloc"
    /\ UNCHANGED <<s, grid, disk, ntile, atime, t, fbuf, ncfile>>

\* sys.exit(' No satellite records within the given time/date range ...')
NoRecords ==
    /\ LoopDone
    /\ ~EnoughRecords(Cardinality(indq(abuf, s)))
    /\ phase' = "exit_no_records"
    /\ UNCHANGED <<s, grid, disk, ntile, ii, abuf, atime, t, fbuf, ncfile>>

\* ----------------------------------------------------------- hourly axis
\* np.round(x/3600.)*3600.: to the nearest hour, halves to the even hour
RoundHour(x) ==
    LET q == x \div 3600
        r == x % 3600
    IN IF r < 1800 THEN q * 3600
       ELSE IF r > 1800 THEN (q + 1) * 3600
       ELSE IF q % 2 = 0 THEN q * 3600 ELSE (q + 1) * 3600

\* np.arange(start, stop, step): start + k*step for every k >= 0 below stop
Arange(start, stop, step) ==
    LET n == IF stop > start THEN (stop - start + step - 1) \div step ELSE 0
    IN [k \in 1..n |-> start + (k - 1) * step]

\* Mutant: the stop of np.arange is left exclusive (no +1).
HourlyAxisOpen(lo, hi) == Arange(RoundHour(lo) - 3600, RoundHour(hi) + 3600, 3600)
\* atime
HourlyAxis(lo, hi) == Arange(RoundHour(lo) - 3600, RoundHour(hi) + 3600 + 1, 3600)

MinOf(S) == CHOOSE x \in S : \A y \in S : x <= y
MaxOf(S) == CHOOSE x \in S : \A y \in S : x >= y
Times(buf) == {buf[i].ast : i \in 1..Len(buf)}

ZeroOut == [ftime |-> 0, flat |-> 0, flon |-> 0, fhsk |-> 0, counthsk |-> 0,
            fhskcal |-> 0, fhsc |-> 0, fwnd |-> 0, fwndcal |-> 0]

\* The output arrays hold ast.shape[0]*2 elements.
OutSize(n) == n * 2

Allocate ==
    /\ phase = "alloc"
    /\ atime' = HourlyAxis(MinOf(Times(abuf)), MaxOf(Times(abuf)))
    /\ fbuf' = [i \in 1..OutSize(Len(abuf)) |-> ZeroOut]
    /\ t' = 0
    /\ phase' = "colloc"
    /\ UNCHANGED <<s, grid, disk, ntile, ii, abuf, ncfile>>

\* ----------------------------------------------------------- collocation
\* indt[0] for the hour atime[tt] (tt counts from 0)
indt(buf, axis, tt) == {i \in 1..Len(buf) : Abs(buf[i].ast - axis[tt + 1]) < maxti}

\* Mutant: two observations are support enough.
HasSupportTwo(n) == n > 1
\* size(indt) > 2
HasSupport(n) == n > 2

\* prlon[prlon>180.] = prlon[prlon>180.] - 360.
prlon(lon) == IF lon > 18000 THEN lon - 36000 ELSE lon

\* Distance in metres between an observation and a target point <<lat, lon>>.
Dist(r, p) == (Abs(r.aslat - p[1]) + Abs(prlon(r.aslon) - p[2])) * MetresPerUnit

\* wf(pdist), in units of 1/(dlim+1)
wf(pdist) ==
    LET a == (dlim + 1) - pdist
    IN (Abs(a) + a) \div 2

\* The observations a target point is resampled from: those within
\* radius_of_influence, the nearest Neighbours of them.  d[i] is the distance
\* of observation i.
NearestOf(d) ==
    LET c == {i \in DOMAIN d : d[i] <= dlim}
        before(j, i) == d[j] < d[i] \/ (d[j] = d[i] /\ j < i)
    IN {i \in c : Cardinality({j \in c : before(j, i)}) < Neighbours}
Nearest(buf, sel, p) ==
    CHOOSE nb \in {NearestOf(d) : d \in {[i \in sel |-> Dist(buf[i], p)]}} : TRUE

RECURSIVE SumOver(_, _, _)
SumOver(S, f(_), acc) ==
    IF S = {} THEN acc
    ELSE LET i == CHOOSE x \in S : TRUE
         IN SumOver(S \ {i}, f, acc + f(i))

\* Mutant: target points without neighbours are filled with 1.0.
FillValueOne == 99 + 1
\* The value with which a target point without neighbours is filled.
FillValue == 0 * 0

\* resample_custom(orig_def, data, targ_def, radius_of_influence=dlim,
\* weight_funcs=wf, fill_value=0) at one target point, for one channel;
\* nb are the neighbours of the target point
Resample(buf, nb, p, ch) ==
    LET w(i) == wf(Dist(buf[i], p))
        wv(i) == w(i) * buf[i][ch]
    IN IF nb = {} THEN FillValue
       ELSE SumOver(nb, wv, 0) \div SumOver(nb, w, 0)

\* The auxf* arrays of one hour at a target point with neighbours nb.
AuxOf(buf, nb, p) ==
    [fhsk |-> Resample(buf, nb, p, "ahsk"),
     counthsk |-> Cardinality(nb),
     fhskcal |-> Resample(buf, nb, p, "ahskcal"),
     fhsc |-> Resample(buf, nb, p, "ahsc"),
     fwnd |-> Resample(buf, nb, p, "awnd"),
     fwndcal |-> Resample(buf, nb, p, "awndcal")]

\* The auxf* arrays of one hour over the target points of grid g.
Aux(buf, sel, g) ==
    LET tg == Targets(g)
    IN [k \in 1..Len(tg) |->
          CHOOSE a \in {AuxOf(buf, nb, tg[k]) : nb \in {Nearest(buf, sel, tg[k])}} : TRUE]

\* An element of indpqq
Retained(a) ==
    /\ a.fhskcal > vmin
    /\ a.fwnd > vmin
    /\ a.fhskcal < hsmax
    /\ a.fwnd < wspmax

\* indpqq: the retained target points, ascending
indpqq(aux) == Sorted({k \in 1..Len(aux) : Retained(aux[k])})

\* The records one hour appends, in indpqq order.
Appended(aux, ix, tg, time) ==
    [k \in 1..Len(ix) |->
        [ftime |-> time, flat |-> tg[ix[k]][1], flon |-> tg[ix[k]][2],
         fhsk |-> aux[ix[k]].fhsk, counthsk |-> aux[ix[k]].counthsk,
         fhskcal |-> aux[ix[k]].fhskcal, fhsc |-> aux[ix[k]].fhsc,
         fwnd |-> aux[ix[k]].fwnd, fwndcal |-> aux[ix[k]].fwndcal]]
HourRecords(buf, sel, g, time) ==
    CHOOSE recs \in {Appended(aux[1], aux[2], Targets(g), time) :
                       aux \in {<<a, indpqq(a)>> : a \in {Aux(buf, sel, g) \o << >>}}} : TRUE

\* len(a[off:off+k]) for an array of n elements
SliceLen(n, off, k) ==
    LET lo == IF off < n THEN off ELSE n
        hi == IF off + k < n THEN off + k ELSE n
    IN hi - lo
\* a[off:off+k] = v with v of k elements: the lengths agree, or v has one
\* element and is broadcast
SliceAssignable(n, off, k) == SliceLen(n, off, k) = k \/ k = 1

InHours == phase = "colloc" /\ t < Len(atime)
HourSel == indt(abuf, atime, t)

\* Fewer than three observations within maxti of the hour.
HourSkip ==
    /\ InHours
    /\ ~HasSupport(Cardinality(HourSel))
    /\ t' = t + 1
    /\ UNCHANGED <<s, grid, disk, phase, ntile, ii, abuf, atime, fbuf, ncfile>>

HourAppend ==
    /\ InHours
    /\ HasSupport(Cardinality(HourSel))
    /\ \E recs \in {HourRecords(abuf, HourSel, grid, atime[t + 1])} :
          /\ SliceAssignable(Len(fbuf), ii, Len(recs))
          /\ \E n \in {SliceLen(Len(fbuf), ii, Len(recs))} :
                fbuf' = [i \in 1..Len(fbuf) |->
                            IF i > ii /\ i <= ii + n
                            THEN IF Len(recs) = 1 THEN recs[1] ELSE recs[i - ii]
                            ELSE fbuf[i]]
          /\ ii' = ii + Len(recs)
    /\ t' = t + 1
    /\ UNCHANGED <<s, grid, disk, phase, ntile, abuf, atime, ncfile>>

\* ftime[ii:ii+size(indpqq)] = ... raises ValueError: the slice is cut short
\* by the end of the output arrays.
HourValueError ==
    /\ InHours
    /\ HasSupport(Cardinality(HourSel))
    /\ \E recs \in {HourRecords(abuf, HourSel, grid, atime[t + 1])} :
          ~SliceAssignable(Len(fbuf), ii, Len(recs))
    /\ phase' = "hour_ValueError"
    /\ UNCHANGED <<s, grid, disk, ntile, ii, abuf, atime, t, fbuf, ncfile>>

\* ------------------------------------------------- final quality control
\* np.where( (x<0.01) | (x>max) )
OutOfRange(x, max) == FLt(x, vmin) \/ FGt(x, max)

\* np.any(ind) for ind = (array of indices,): some index is not zero.
\* Positions of the model count from 1, indices of the arrays from 0.
AnyIndex(pos) == \E i \in pos : i - 1 # 0

\* One channel after its 'ind = np.where(...); if np.any(ind): x[ind[0]] = nan'
Marked(buf, ch, max) ==
    LET pos == {i \in 1..Len(buf) : OutOfRange(buf[i][ch], max)}
    IN IF AnyIndex(pos)
       THEN [i \in 1..Len(buf) |-> IF i \in pos THEN [buf[i] EXCEPT ![ch] = NaN] ELSE buf[i]]
       ELSE buf

FinalQC ==
    /\ phase = "colloc"
    /\ t = Len(atime)
    /\ fbuf' = Marked(Marked(Marked(Marked(Marked(fbuf, "fhsk", hsmax), "fhskcal", hsmax),
                                    "fhsc", hsmax), "fwnd", wspmax), "fwndcal", wspmax)
    /\ phase' = "save"
    /\ UNCHANGED <<s, grid, disk, ntile, ii, abuf, atime, t, ncfile>>

\* indf[0]
indf(buf) == {i \in 1..Len(buf) : FGt(buf[i].ftime, 0) /\ FGe(buf[i].fhsk, 0)}

\* The arrays restricted to indf, as written to the file.
Final(buf) ==
    LET ix == Sorted(indf(buf))
    IN [k \in 1..Len(ix) |-> buf[ix[k]]]

\* AltimeterGridded_<sdname[s]>.nc
Save ==
    /\ phase = "save"
    /\ fbuf' = Final(fbuf)
    /\ ncfile' = PyIndex(sdname, s)
    /\ phase' = "done"
    /\ UNCHANGED <<s, grid, disk, ntile, ii, abuf, atime, t>>

Collocate == HourSkip \/ HourAppend \/ HourValueError

Next == Ingest \/ QualityControl \/ NoRecords \/ Allocate \/ Collocate \/ FinalQC \/ Save
Spec == Init /\ [][Next]_vars

\* The axis alone: the state after the quality control, the earliest and
\* latest observation drawn from Base + 0..MaxK ten-minute ticks.
AxisTicks == {Base + k * Tick10 : k \in 0..MaxK}
InitAxis ==
    /\ s = 0
    /\ grid = "small"
    /\ disk = [i \in 1..MaxTiles |-> Absent]
    /\ phase = "alloc"
    /\ ntile = MaxTiles
    /\ ii = 0
    /\ \E lo \in AxisTicks, hi \in AxisTicks, pos \in {1, 11} :
          /\ lo <= hi
          /\ abuf = Selected([i \in 1..11 |->
                                 GoodRec(LatB, IF i = pos THEN lo ELSE hi)], 0)
    /\ atime = << >>
    /\ t = 0
    /\ fbuf = << >>
    /\ ncfile = "none"
SpecAxis == InitAxis /\ [][Allocate]_vars


\* ================================================================ claims
IngestPhases == {"ingest", "IndexError", "exit_small_array", "tile_ValueError",
                 "exit_no_records"}
\* A step of the tile loop on a file that exists.
OpensTile == InLoop /\ InPyRange(sdname, s) /\ Tile # Absent
Mismatched(tile) ==
    \/ LenOf(tile, "ast") # LenOf(tile, "awnd")
    \/ LenOf(tile, "aslat") # LenOf(tile, "aslon")
    \/ LenOf(tile, "ahsk") # LenOf(tile, "ahskcal")

\* C1: during ingestion the write offset stays within 0..capacity, and a tile
\* of more than 10 samples whose record count added to the offset exceeds the
\* capacity ends the run (and only such a tile does), nothing of it written.
C1_StepOk ==
    (OpensTile /\ ntile' = ntile + 1) =>
       LET over == TileSize(Tile) > 10 /\ ii + TileSize(Tile) > Capacity
       IN /\ over => (phase' = "exit_small_array" /\ abuf' = abuf /\ ii' = ii)
          /\ ~over => phase' # "exit_small_array"
C1_OffsetWithinCapacity ==
    /\ [](phase \in IngestPhases => (ii >= 0 /\ ii <= Capacity))
    /\ [][C1_StepOk]_vars
\* The run ended on a tile that did not fit after another was appended.
C1_Witness == phase = "exit_small_array" /\ ii > 0 /\ ii <= Capacity

\* C2: every hour's append fits into the output arrays of 2*N elements
\* (N the number of QC-passed records): the offset never passes 2*N.
C2_OutputWithinTwice ==
    /\ phase \in {"colloc", "save", "hour_ValueError"} => ii <= 2 * Len(abuf)
    /\ (phase = "colloc" /\ t < Len(atime) /\ Cardinality(HourSel) > 2) =>
          ii + Len(HourRecords(abuf, HourSel, grid, atime[t + 1])) <= 2 * Len(abuf)

\* C3: an hour with fewer than 3 QC-passed records within 1800 s appends
\* nothing: the offset and the output arrays stay as they are.
C3_Support(tt) == Cardinality({i \in 1..Len(abuf) : Abs(abuf[i].ast - atime[tt + 1]) < 1800})
C3_Step ==
    (phase = "colloc" /\ t < Len(atime) /\ C3_Support(t) < 3 /\ t' = t + 1) =>
       (ii' = ii /\ fbuf' = fbuf /\ phase' = "colloc")
C3_MinimumSupport == [][C3_Step]_vars
\* An hour with exactly two records was passed over after another had output.
C3_Witness == phase = "colloc" /\ t > 0 /\ C3_Support(t - 1) = 2 /\ ii > 0

\* C4 as claimed: the axis starts no later than the earliest observation
\* floored to the hour minus one hour, ends no earlier than the latest
\* observation ceiled to the hour plus one hour, in steps of 3600 s.
FloorHour(x) == (x \div 3600) * 3600
CeilHour(x) == ((x + 3599) \div 3600) * 3600
Spacing3600 == \A k \in 1..(Len(atime) - 1) : atime[k + 1] - atime[k] = 3600
C4_FloorCeilCoverage ==
    phase = "colloc" =>
       /\ Len(atime) > 0
       /\ atime[1] <= FloorHour(MinOf(Times(abuf))) - 3600
       /\ atime[Len(atime)] >= CeilHour(MaxOf(Times(abuf))) + 3600
       /\ Spacing3600
\* C4 amended: the same with the earliest and latest observation rounded to
\* the nearest hour instead of floored and ceiled.
IsNearestHour(h, x) == h % 3600 = 0 /\ Abs(x - h) <= 1800
C4_NearestHourCoverage ==
    phase = "colloc" =>
       /\ Len(atime) > 0
       /\ \E k \in 1..Len(atime) :
             IsNearestHour(atime[k], MinOf(Times(abuf))) /\ atime[1] <= atime[k] - 3600
       /\ \E k \in 1..Len(atime) :
             IsNearestHour(atime[k], MaxOf(Times(abuf))) /\ atime[Len(atime)] >= atime[k] + 3600
       /\ Spacing3600
\* An axis over observations that are not on the hour.
C4_Witness ==
    /\ phase = "colloc"
    /\ Len(atime) >= 3
    /\ MinOf(Times(abuf)) % 3600 > 1800
    /\ MaxOf(Times(abuf)) % 3600 \in 1..1799

\* C5: after the final quality control no channel of any element of the
\* output arrays holds a value outside its range: each is the missing-value
\* marker, whatever the other channels of the element hold; and so in the
\* records that are saved.
ChannelMax == [fhsk |-> 2000, fhskcal |-> 2000, fhsc |-> 2000, fwnd |-> 6000,
               fwndcal |-> 6000]
C5_ChannelsMarked ==
    phase \in {"save", "done"} =>
       \A i \in 1..Len(fbuf) : \A ch \in DOMAIN ChannelMax :
          fbuf[i][ch] = NaN \/ (fbuf[i][ch] >= 1 /\ fbuf[i][ch] <= ChannelMax[ch])

\* C6: at the quality control the run ends fatally, with no collocation and
\* no file, exactly if fewer than 11 records of the accumulation arrays
\* satisfy every QC condition.
C6_Passes(r) ==
    /\ r.aswhknstd <= 150 /\ r.asig0knstd <= 80 /\ r.aswhkqc <= 200
    /\ (PyIndex(min_swh_numval, s) = NegInf \/ r.aswhknobs >= PyIndex(min_swh_numval, s))
    /\ r.ahsk > 1 /\ r.ahsk < 2000 /\ r.awnd > 1 /\ r.awnd < 6000
    /\ r.ast >= adatemin /\ r.ast <= adatemax
C6_Count == Cardinality({i \in 1..Len(abuf) : C6_Passes(abuf[i])})
C6_Step ==
    (LoopDone /\ phase' # phase) =>
       /\ (phase' = "exit_no_records") <=> (C6_Count < 11)
       /\ (phase' # "exit_no_records") => phase' = "alloc"
C6_FatalIffTooFew ==
    /\ [](phase = "exit_no_records" => (atime = << >> /\ fbuf = << >> /\ ncfile = "none"))
    /\ [][C6_Step]_vars
\* The run ended at the quality control with ten passing records.
C6_Witness == phase = "exit_no_records" /\ C6_Count = 10 /\ ii > 10

\* C7: a present tile of more than 10 samples whose sibling arrays differ in
\* length is passed over: the run goes on with the next tile, the offset and
\* the accumulation arrays unchanged, whatever the offset.
C7_Step ==
    (OpensTile /\ TileSize(Tile) > 10 /\ Mismatched(Tile) /\ ntile' = ntile + 1) =>
       (phase' = "ingest" /\ ii' = ii /\ abuf' = abuf)
C7_MalformedSkipped == [][C7_Step]_vars

\* C8: a run argument outside 0..13 ends the run at the first tile, nothing
\* ingested and no file written; an argument in 0..13 selects the entry at
\* that position of the mission table.
C8_MissionResolved ==
    /\ (s \notin 0..13 /\ ntile > 0) => (phase = "IndexError" /\ ii = 0 /\ ncfile = "none")
    /\ (s \in 0..13 /\ ncfile # "none") => ncfile = sdname[s + 1]

\* C9: every record an hour appends carries the hour's timestamp and the
\* position of a water point that has a selected observation within 25 km,
\* with calibrated wave height in (0.01, 20) and wind in (0.01, 60); a water
\* point without such an observation gets no record.
C9_Covered(p, tt) ==
    \E i \in indt(abuf, atime, tt) : Dist(abuf[i], p) <= 25000
C9_Step ==
    (phase = "colloc" /\ t < Len(atime) /\ t' = t + 1) =>
       \A i \in (ii + 1)..ii' :
          /\ i <= Len(fbuf)
          /\ fbuf'[i].ftime = atime[t + 1]
          /\ fbuf'[i].fhskcal > 1 /\ fbuf'[i].fhskcal < 2000
          /\ fbuf'[i].fwnd > 1 /\ fbuf'[i].fwnd < 6000
          /\ \E k \in 1..Len(Targets(grid)) :
                /\ Targets(grid)[k] = <<fbuf'[i].flat, fbuf'[i].flon>>
                /\ C9_Covered(Targets(grid)[k], t)
C9_NoCoverageNoRecord == [][C9_Step]_vars
\* An hour appended records while a water point had no observation in reach.
C9_Witness ==
    /\ phase = "colloc" /\ t > 0 /\ ii > 0
    /\ fbuf[ii].ftime = atime[t]
    /\ \E k \in 1..Len(Targets(grid)) : ~C9_Covered(Targets(grid)[k], t - 1)

\* C10: no slot of the accumulation arrays at or beyond the write offset
\* passes the quality control, for any mission and any sequence of tiles.
C10_PaddingNeverPasses ==
    (phase = "ingest" /\ InPyRange(min_swh_numval, s)) =>
       \A i \in indq(abuf, s) : i <= ii
\* GEOSAT (threshold -inf) at the quality control, the arrays partly filled.
C10_Witness ==
    /\ LoopDone /\ s = 10 /\ ii > 0 /\ ii < Capacity
    /\ indq(abuf, s) # {}

====
